---- MODULE Spec2Model ----
(***************************************************************************)
(* The GeminiLive voice session client of services/gemini (the class       *)
(* GeminiLive, lines 146-383 of src/unnamed/part_000) as a state machine.  *)
(*                                                                         *)
(* An object created by the k-th connect() call (an AudioContext, the      *)
(* MediaStream, the session promise and its transport) is named by k;      *)
(* 0 is null.  JavaScript runs one handler at a time, so every action is   *)
(* one handler (or one continuation after an await) run to completion.     *)
(***************************************************************************)
EXTENDS Integers, Sequences, FiniteSets

\* ------------------------------------------------------------------ bounds
MaxConnects == 2      \* connect() calls in a run
MaxWindows == 1       \* capture windows delivered by the input device
MaxCalls == 2         \* function calls carried by tool-call events in a run
MaxText == 2          \* characters held by one transcript buffer
MaxClock == 2         \* ticks of an output device clock
MaxUnits == 2         \* audio chunks enqueued between two interruptions
MaxSamples == 2       \* samples of an encoded capture window
SubSteps == 4         \* float values from one 16-bit level to the next

Conns == 1..MaxConnects
Kinds == {"stream", "inputAudioContext", "audioContext"}

VARIABLES
  \* fields of GeminiLive
  audioContext, inputAudioContext, stream, nextStartTime, sources,
  sessionPromise, currentInputTranscription, currentOutputTranscription,
  \* the connect() calls, the transports and the capture pipeline
  connects, pc, transport, opened, capture, windows,
  \* the output device clock (AudioContext.currentTime of the held context)
  clock,
  \* the function calls received so far and the responses waiting on a
  \* session promise that has not resolved yet
  calls, queuedResp, responses,
  \* observations: what the callbacks and the devices have seen
  active, statusTrueN, discFalse, acquired, relCount, tcalls, inParts,
  outParts,
  \* hist: the chunks enqueued since the last interruption, each with the
  \* clock and nextStartTime playAudio read and the context it used;
  \* staleOffset: nextStartTime as it was when the last interruption arrived
  \* (-1: none yet)
  hist, staleOffset, lastOp,
  \* the capture window last encoded: its samples, the frame made of them
  \* and what decoding that frame gives
  pcm

fieldVars == <<audioContext, inputAudioContext, stream, sessionPromise>>
textVars == <<currentInputTranscription, currentOutputTranscription,
              inParts, outParts>>
playVars == <<nextStartTime, sources, hist, staleOffset>>
toolVars == <<calls, queuedResp, responses>>
connVars == <<connects, pc>>
statusVars == <<active, statusTrueN, discFalse>>
vars == <<audioContext, inputAudioContext, stream, nextStartTime, sources,
          sessionPromise, currentInputTranscription,
          currentOutputTranscription, connects, pc, transport, opened,
          capture, windows, clock, calls, queuedResp, responses, active,
          statusTrueN, discFalse, acquired, relCount, tcalls, inParts,
          outParts, hist, staleOffset, lastOp, pcm>>

\* ----------------------------------------------------------------- helpers
NoPcm == [samples |-> <<>>, frame |-> <<>>, decoded |-> <<>>,
          stage |-> "idle"]

NoMsg == [audio |-> <<>>, outT |-> <<>>, inT |-> <<>>,
          turnComplete |-> FALSE, interrupted |-> FALSE, calls |-> <<>>]

\* What the transcript buffers were when a turn-complete or an interruption
\* was handled: the partials received since the last reset of each buffer
\* (those of the message included) and the input buffer before the message;
\* how many tool actions were running when disconnect() was called; and
\* the session promise the client held when an event of a transport ended it.
NoBefore == [inParts |-> <<>>, outParts |-> <<>>, input |-> <<>>,
             running |-> 0, held |-> 0]

\* What the last step was: the handler, the object it ran for, and of a
\* message whether it completed a turn or signalled an interruption and the
\* audio chunk it carried (0: none, or one that does not decode).
Op(name, k, m) ==
  [op |-> name, sess |-> k, turnComplete |-> m.turnComplete,
   interrupted |-> m.interrupted,
   chunk |-> IF m.audio = <<>> THEN 0 ELSE m.audio[1],
   before |-> NoBefore]

\* The last two entries of a sequence.
LastTwo(s) == IF Len(s) <= 2 THEN s ELSE SubSeq(s, Len(s) - 1, Len(s))

\* ------------------------------------------------------------- disconnect
\* The value a handle field holds after its release (lines 215, 220, 225).
AfterReleaseKeep(h) == h
AfterRelease(h) == 0

\* A disconnect() that stops and closes nothing.
ReleaseSkipped(rc, kind, h) == rc

\* stop()/close() of the object a field holds, skipped when the field is null.
Release(rc, kind, h) ==
  IF h = 0 THEN rc ELSE [rc EXCEPT ![kind][h] = @ + 1]

\* status(false) invocations made by one disconnect() call (line 211).
StatusFalseCalls == 1

\* The number of function calls whose action is running.
Running(cs) ==
  Cardinality({i \in DOMAIN cs : cs[i].state = "running"})

\* A disconnect() that gives up the tool actions in flight.
InFlightGivenUp(cs) ==
  [i \in DOMAIN cs |->
     IF cs[i].state = "running" THEN [cs[i] EXCEPT !.state = "skipped"]
     ELSE cs[i]]

\* The function calls after disconnect() (lines 210-233): it neither waits
\* for the tool actions in flight nor gives them up.
InFlightAfterDisconnect(cs) == cs

\* disconnect() run on a client whose handle fields hold inC, outC and st.
disconnect(inC, outC, st) ==
  /\ active' = FALSE
  /\ calls' = InFlightAfterDisconnect(calls)
  /\ discFalse' = LastTwo(Append(discFalse, StatusFalseCalls))
  /\ relCount' = Release(Release(Release(relCount, "stream", st),
                                 "inputAudioContext", inC),
                         "audioContext", outC)
  /\ stream' = IF st = 0 THEN 0 ELSE AfterRelease(st)
  /\ inputAudioContext' = IF inC = 0 THEN 0 ELSE AfterRelease(inC)
  /\ audioContext' = IF outC = 0 THEN 0 ELSE AfterRelease(outC)
  \* close() of the input context is asynchronous: a script processor of that
  \* context may still deliver windows until the close has completed.
  /\ capture' = [c \in Conns |->
                   IF c = inC /\ capture[c] = "on" THEN "draining"
                   ELSE capture[c]]
  /\ sessionPromise' = 0
  /\ currentInputTranscription' = <<>>
  /\ currentOutputTranscription' = <<>>
  /\ inParts' = <<>>
  /\ outParts' = <<>>

\* disconnect() called by the owner of the client.
Disconnect ==
  /\ disconnect(inputAudioContext, audioContext, stream)
  /\ tcalls' = <<>>
  /\ UNCHANGED pcm
  /\ lastOp' = [Op("disconnect", 0, NoMsg) EXCEPT
                  !.before = [NoBefore EXCEPT !.running = Running(calls)]]
  /\ UNCHANGED <<playVars, queuedResp, responses, connVars, transport,
                 opened, windows, clock, statusTrueN, acquired>>

\* ---------------------------------------------------------------- connect
CtorOutcomes == {"ok", "inputThrows", "outputThrows"}

\* connect() up to its await of getUserMedia (lines 170-174).  The caller
\* starts a session on a client that holds none.
ConnectStart(outcome) ==
  /\ connects < MaxConnects
  /\ audioContext = 0 /\ inputAudioContext = 0
  /\ stream = 0 /\ sessionPromise = 0
  /\ LET k == connects + 1 IN
     /\ connects' = k
     /\ tcalls' = <<>>
     /\ UNCHANGED pcm
     /\ lastOp' = Op("connect", k, NoMsg)
     /\ CASE outcome = "ok" ->
               /\ inputAudioContext' = k
               /\ audioContext' = k
               /\ clock' = 0
               /\ pc' = [pc EXCEPT ![k] = "awaitMic"]
               /\ discFalse' = <<>>
               /\ acquired' = acquired \cup {<<"inputAudioContext", k>>,
                                              <<"audioContext", k>>}
               /\ UNCHANGED <<stream, sessionPromise, textVars, active,
                              relCount, capture, calls>>
          [] outcome = "inputThrows" ->
               /\ disconnect(0, 0, 0)
               /\ pc' = [pc EXCEPT ![k] = "failed"]
               /\ UNCHANGED <<clock, acquired>>
          [] outcome = "outputThrows" ->
               /\ disconnect(k, 0, 0)
               /\ pc' = [pc EXCEPT ![k] = "failed"]
               /\ acquired' = acquired \cup {<<"inputAudioContext", k>>}
               /\ UNCHANGED clock
     /\ UNCHANGED <<playVars, queuedResp, responses, transport, opened,
                    windows, statusTrueN>>

\* A connect() that leaves the status callback alone.
StatusOnMicSkipped(st) == st

\* onStatusChange(true) of connect() (line 176), on what the status callback
\* has seen: the last value given to it and its invocations with true.
StatusOnMic(st) == [active |-> TRUE, trueN |-> st.trueN + 1]

\* getUserMedia resolves: lines 174-202.
MicGranted(k) ==
  /\ pc[k] = "awaitMic"
  /\ pc' = [pc EXCEPT ![k] = "done"]
  /\ stream' = k
  /\ acquired' = acquired \cup {<<"stream", k>>}
  /\ LET st == StatusOnMic([active |-> active, trueN |-> statusTrueN]) IN
     active' = st.active /\ statusTrueN' = st.trueN
  /\ discFalse' = <<>>
  /\ sessionPromise' = k
  /\ transport' = [transport EXCEPT ![k] = "connecting"]
  /\ tcalls' = <<>>
  /\ UNCHANGED pcm
  /\ lastOp' = Op("micGranted", k, NoMsg)
  /\ UNCHANGED <<audioContext, inputAudioContext, textVars, playVars,
                 toolVars, connects, opened, capture, windows, clock,
                 relCount>>

\* getUserMedia rejects: the catch block, lines 203-207.
MicDenied(k) ==
  /\ pc[k] = "awaitMic"
  /\ pc' = [pc EXCEPT ![k] = "failed"]
  /\ disconnect(inputAudioContext, audioContext, stream)
  /\ tcalls' = <<>>
  /\ UNCHANGED pcm
  /\ lastOp' = Op("micDenied", k, NoMsg)
  /\ UNCHANGED <<playVars, queuedResp, responses, connects, transport,
                 opened, windows, clock, statusTrueN, acquired>>

\* -------------------------------------------------------------- transport
\* A capture callback without its guard: with no session promise the send
\* waits for one.
DeliverUnguarded(sp) ==
  IF sp = 0 \/ sp \notin opened THEN "queue"
  ELSE IF transport[sp] = "open" THEN "now"
  ELSE "lost"

\* Where a callback registered with sessionPromise.then() goes: the promise
\* is absent ("skip"), still pending ("queue"), resolved with a session whose
\* transport is open ("now") or resolved with a session whose transport has
\* closed since ("lost").
Deliver(sp) ==
  IF sp = 0 THEN "skip"
  ELSE IF sp \notin opened THEN "queue"
  ELSE IF transport[sp] = "open" THEN "now"
  ELSE "lost"

\* The responses waiting on the promise of session k, sent in the order in
\* which their callbacks were registered (the order of their settling).
RECURSIVE Flush(_, _)
Flush(Q, k) ==
  IF Q = {} THEN <<>>
  ELSE LET q == CHOOSE x \in Q : \A y \in Q : x.seq <= y.seq IN
       <<[id |-> q.id, name |-> q.name, result |-> q.result, on |-> k]>>
         \o Flush(Q \ {q}, k)

\* handleOpen (lines 235-259): the script processors running after it.
handleOpen ==
  IF stream = 0 \/ inputAudioContext = 0 THEN capture
  ELSE [capture EXCEPT ![inputAudioContext] = "on"]

\* The transport of session k confirms the open: onopen runs handleOpen and
\* the session promise resolves, which runs the callbacks waiting on it.
TransportOpen(k) ==
  /\ transport[k] = "connecting"
  /\ transport' = [transport EXCEPT ![k] = "open"]
  /\ opened' = opened \cup {k}
  /\ capture' = handleOpen
  /\ responses' = responses \o Flush(queuedResp[k], k)
  /\ queuedResp' = [queuedResp EXCEPT ![k] = {}]
  /\ UNCHANGED calls
  /\ windows' = [w \in DOMAIN windows |->
                   IF windows[w].fate = "queued" /\ windows[w].sess = k
                   THEN [windows[w] EXCEPT !.fate = "sent"]
                   ELSE windows[w]]
  /\ tcalls' = <<>>
  /\ UNCHANGED pcm
  /\ lastOp' = Op("open", k, NoMsg)
  /\ UNCHANGED <<fieldVars, textVars, playVars, connVars, statusVars, clock,
                 acquired, relCount>>

\* The transcript buffers as an event of the transport finds them.
BuffersNow ==
  [inParts |-> inParts, outParts |-> outParts,
   input |-> currentInputTranscription, running |-> Running(calls),
   held |-> sessionPromise]

\* An onerror callback that only logs the error.
TransportErrorIgnored(k) ==
  /\ transport[k] \in {"connecting", "open"}
  /\ transport' = [transport EXCEPT ![k] = "errored"]
  /\ tcalls' = <<>>
  /\ UNCHANGED pcm
  /\ lastOp' = [Op("error", k, NoMsg) EXCEPT !.before = BuffersNow]
  /\ UNCHANGED <<fieldVars, textVars, playVars, toolVars, connVars,
                 statusVars, opened, capture, windows, clock, acquired,
                 relCount>>

\* onerror of the transport of session k (lines 187-190).
TransportError(k) ==
  /\ transport[k] \in {"connecting", "open"}
  /\ transport' = [transport EXCEPT ![k] = "errored"]
  /\ disconnect(inputAudioContext, audioContext, stream)
  /\ tcalls' = <<>>
  /\ UNCHANGED pcm
  /\ lastOp' = [Op("error", k, NoMsg) EXCEPT !.before = BuffersNow]
  /\ UNCHANGED <<playVars, queuedResp, responses, connVars, opened,
                 windows, clock, statusTrueN, acquired>>

\* onclose of the transport of session k (lines 183-186).
TransportClose(k) ==
  /\ transport[k] \in {"connecting", "open", "errored"}
  /\ transport' = [transport EXCEPT ![k] = "closed"]
  /\ disconnect(inputAudioContext, audioContext, stream)
  /\ tcalls' = <<>>
  /\ UNCHANGED pcm
  /\ lastOp' = [Op("close", k, NoMsg) EXCEPT !.before = BuffersNow]
  /\ UNCHANGED <<playVars, queuedResp, responses, connVars, opened,
                 windows, clock, statusTrueN, acquired>>

\* ---------------------------------------------------------------- capture
\* onaudioprocess of a script processor of input context c (lines 241-255).
CaptureWindow(c) ==
  /\ capture[c] \in {"on", "draining"}
  /\ Len(windows) < MaxWindows
  /\ LET d == Deliver(sessionPromise) IN
     windows' = Append(windows,
                  [ctx |-> c,
                   held |-> sessionPromise,
                   sess |-> IF d = "skip" THEN 0 ELSE sessionPromise,
                   fate |-> CASE d = "skip" -> "dropped"
                              [] d = "queue" -> "queued"
                              [] d = "now" -> "sent"
                              [] d = "lost" -> "lost"])
  /\ tcalls' = <<>>
  /\ UNCHANGED pcm
  /\ lastOp' = Op("window", c, NoMsg)
  /\ UNCHANGED <<fieldVars, textVars, playVars, toolVars, connVars,
                 statusVars, transport, opened, capture, clock,
                 acquired, relCount>>

\* close() of input context c has completed: its processors are gone.
CaptureStopped(c) ==
  /\ capture[c] = "draining"
  /\ capture' = [capture EXCEPT ![c] = "off"]
  /\ tcalls' = <<>>
  /\ UNCHANGED pcm
  /\ lastOp' = Op("captureStopped", c, NoMsg)
  /\ UNCHANGED <<fieldVars, textVars, playVars, toolVars, connVars,
                 statusVars, transport, opened, windows, clock,
                 acquired, relCount>>

\* ------------------------------------------------------------- tool calls
GenOutcomes == {"image", "noImage", "thrown"}

\* A generateImage that reports success whatever the request returned.
generateImageAlwaysSuccess(outcome) == [success |-> TRUE, error |-> ""]

\* generateImage (lines 58-84): it catches every failure of the request.
generateImage(outcome) ==
  CASE outcome = "image" -> [success |-> TRUE, error |-> ""]
    [] outcome = "noImage" ->
         [success |-> FALSE, error |-> "No image generated."]
    [] outcome = "thrown" ->
         [success |-> FALSE, error |-> "Failed to generate image."]

\* responseContent left at its initial value when the action fails.
ResponseContentNoMarker(result) ==
  IF result.success THEN <<"Image generated successfully.">>
  ELSE <<"Image generation failed.">>

\* responseContent of handleToolCall (lines 308-314).
ResponseContent(result) ==
  IF result.success THEN <<"Image generated successfully.">>
  ELSE <<"Error: ", result.error>>

MinOf(S) == CHOOSE x \in S : \A y \in S : x <= y

\* A loop that starts the action of every create_image call of event ev at
\* once instead of awaiting each in turn.
handleToolCallParallel(cs, ev) ==
  [i \in DOMAIN cs |->
     IF cs[i].ev = ev /\ cs[i].state = "waiting"
     THEN [cs[i] EXCEPT !.state = IF cs[i].name = "create_image"
                                  THEN "running" ELSE "skipped"]
     ELSE cs[i]]

\* The for loop of handleToolCall (lines 303-326) run on event ev until it
\* awaits generateImage or ends: a call of another name is passed over.
RECURSIVE handleToolCall(_, _)
handleToolCall(cs, ev) ==
  LET W == {i \in DOMAIN cs : cs[i].ev = ev /\ cs[i].state = "waiting"} IN
  IF W = {} THEN cs
  ELSE LET i == MinOf(W) IN
       IF cs[i].name = "create_image"
       THEN [cs EXCEPT ![i].state = "running"]
       ELSE handleToolCall([cs EXCEPT ![i].state = "skipped"], ev)

\* A function call of event ev received from the transport of session k
\* while the client held session promise sp.  Its id is its place in calls;
\* outcome, images and held record how its action settled, how often
\* onImageGenerated ran for it and the session promise the client held then.
NewCall(ev, name, k, sp) ==
  [ev |-> ev, name |-> name, sess |-> k, recvHeld |-> sp,
   state |-> "waiting", outcome |-> "", images |-> 0, held |-> 0]

\* generateImage of call i settles: lines 306-324, then the loop goes on.
ToolActionDone(i, outcome) ==
  /\ i \in DOMAIN calls
  /\ calls[i].state = "running"
  /\ LET r == generateImage(outcome)
         d == Deliver(sessionPromise)
         c == [calls[i] EXCEPT
                 !.state = "done",
                 !.outcome = outcome,
                 !.images = @ + (IF r.success THEN 1 ELSE 0),
                 !.held = sessionPromise]
         resp == [id |-> i, name |-> calls[i].name,
                  result |-> ResponseContent(r)]
     IN /\ calls' = handleToolCall([calls EXCEPT ![i] = c], calls[i].ev)
        /\ responses' =
             IF d = "now"
             THEN Append(responses,
                         [id |-> resp.id, name |-> resp.name,
                          result |-> resp.result, on |-> sessionPromise])
             ELSE responses
        /\ queuedResp' =
             IF d = "queue"
             THEN [queuedResp EXCEPT ![sessionPromise] =
                     @ \cup {[id |-> resp.id, name |-> resp.name,
                              result |-> resp.result,
                              seq |-> Cardinality(@) + 1]}]
             ELSE queuedResp
  /\ tcalls' = <<>>
  /\ UNCHANGED pcm
  /\ lastOp' = Op("toolDone", i, NoMsg)
  /\ UNCHANGED <<fieldVars, textVars, playVars, connVars, statusVars,
                 transport, opened, capture, windows, clock,
                 acquired, relCount>>

\* --------------------------------------------------------------- playback
Max(a, b) == IF a >= b THEN a ELSE b

\* A chunk is the duration of the audio it decodes to; 0 is a payload that
\* does not decode (atob, the Int16Array view or createBuffer throws).
Decodable(d) == d > 0

\* Start times that ignore the accumulated offset, or the live clock.
StartTimeClockOnly(clk, nst) == clk
StartTimeOffsetOnly(clk, nst) == nst

\* The earlier of the two instead of the later.
StartTimeMin(clk, nst) == IF clk <= nst THEN clk ELSE nst

\* The start time playAudio gives a chunk (line 351).
StartTime(clk, nst) == Max(clk, nst)

\* playAudio (lines 329-361) on the playback state p, the held output
\* context ctx and its clock clk.
playAudio(p, d, ctx, clk) ==
  IF ctx = 0 \/ ~Decodable(d) THEN p
  ELSE LET start == StartTime(clk, p.nst) IN
       [nst |-> start + d,
        src |-> p.src \cup {[start |-> start, dur |-> d, ctx |-> ctx]},
        hist |-> Append(p.hist, [clock |-> clk, npt |-> p.nst,
                                 start |-> start, dur |-> d,
                                 ctx |-> ctx])]

\* stopAudio (lines 363-366): the active set after it.
stopAudio(src) == {}

\* nextStartTime after an interruption (line 290).
AfterInterruptionKeep(nst) == nst
AfterInterruption(nst) == 0

\* currentOutputTranscription after an interruption (line 289).
OutputAfterInterruptionKeep(out) == out
OutputAfterInterruption(out) == <<>>

\* ------------------------------------------------------------ transcripts
\* A partial put in front of the buffer instead of behind it.
PrependText(buf, t) == t \o buf

\* A partial assigned to the buffer instead of appended to it.
AssignText(buf, t) == t

\* += of a partial text to a transcript buffer (lines 270, 275).
AppendText(buf, t) == buf \o t

Callback(u, m, f) == [user |-> u, model |-> m, final |-> f]

\* ---------------------------------------------------------- handleMessage
\* handleMessage (lines 261-297) for message m of the transport of session k.
HandleMessage(k, m) ==
  /\ transport[k] = "open"
  /\ m.audio # <<>> => Len(hist) < MaxUnits
  /\ m.outT # <<>> =>
       Len(currentOutputTranscription) + Len(m.outT[1]) <= MaxText
  /\ m.inT # <<>> =>
       Len(currentInputTranscription) + Len(m.inT[1]) <= MaxText
  /\ Len(calls) + Len(m.calls) <= MaxCalls
  /\ LET p0 == [nst |-> nextStartTime, src |-> sources, hist |-> hist]
         p1 == IF m.audio # <<>>
               THEN playAudio(p0, m.audio[1], audioContext, clock)
               ELSE p0
         out1 == IF m.outT # <<>>
                 THEN AppendText(currentOutputTranscription, m.outT[1])
                 ELSE currentOutputTranscription
         cb1 == IF m.outT # <<>>
                THEN <<Callback(currentInputTranscription, out1, FALSE)>>
                ELSE <<>>
         in1 == IF m.inT # <<>>
                THEN AppendText(currentInputTranscription, m.inT[1])
                ELSE currentInputTranscription
         cb2 == IF m.inT # <<>>
                THEN <<Callback(in1, out1, FALSE)>>
                ELSE <<>>
         cb3 == IF m.turnComplete
                THEN <<Callback(in1, out1, TRUE)>>
                ELSE <<>>
         in2 == IF m.turnComplete THEN <<>> ELSE in1
         out2 == IF m.turnComplete THEN <<>> ELSE out1
         ev == Len(calls) + 1
     IN /\ nextStartTime' = IF m.interrupted THEN AfterInterruption(p1.nst)
                            ELSE p1.nst
        /\ sources' = IF m.interrupted THEN stopAudio(p1.src) ELSE p1.src
        /\ hist' = IF m.interrupted THEN <<>> ELSE p1.hist
        /\ staleOffset' = IF m.interrupted THEN p1.nst ELSE staleOffset
        /\ currentInputTranscription' = in2
        /\ currentOutputTranscription' =
             IF m.interrupted THEN OutputAfterInterruption(out2) ELSE out2
        /\ inParts' = IF m.turnComplete THEN <<>>
                      ELSE inParts \o m.inT
        /\ outParts' = IF m.turnComplete \/ m.interrupted THEN <<>>
                       ELSE outParts \o m.outT
        /\ tcalls' = cb1 \o cb2 \o cb3
        /\ calls' = IF m.calls = <<>> THEN calls
                    ELSE handleToolCall(
                           calls \o [j \in 1..Len(m.calls) |->
                                       NewCall(ev, m.calls[j], k,
                                               sessionPromise)], ev)
  /\ UNCHANGED pcm
  /\ lastOp' = [Op("message", k, m) EXCEPT
                  !.before = IF m.turnComplete \/ m.interrupted
                             THEN [inParts |-> inParts \o m.inT,
                                   outParts |-> outParts \o m.outT,
                                   input |-> currentInputTranscription,
                                   running |-> 0, held |-> 0]
                             ELSE NoBefore]
  /\ UNCHANGED <<fieldVars, connVars, statusVars, transport, opened, capture,
                 windows, clock, queuedResp, responses, acquired, relCount>>

\* The clock of the held output context advances.
Tick ==
  /\ audioContext # 0
  /\ clock < MaxClock
  /\ clock' = clock + 1
  /\ tcalls' = <<>>
  /\ UNCHANGED pcm
  /\ lastOp' = Op("tick", 0, NoMsg)
  /\ UNCHANGED <<fieldVars, textVars, playVars, toolVars, connVars,
                 statusVars, transport, opened, capture, windows,
                 acquired, relCount>>

\* onended of a playback unit of the held output context (line 355).
SourceEnded(u) ==
  /\ u \in sources
  /\ u.ctx = audioContext
  /\ clock >= u.start + u.dur
  /\ sources' = sources \ {u}
  /\ tcalls' = <<>>
  /\ UNCHANGED pcm
  /\ lastOp' = Op("ended", 0, NoMsg)
  /\ UNCHANGED <<fieldVars, textVars, nextStartTime, hist, staleOffset,
                 toolVars, connVars, statusVars, transport, opened, capture,
                 windows, clock, acquired, relCount>>

\* ----------------------------------------------------------------- inputs
Names == {"create_image", "other"}
PartialTexts == {<<"a">>, <<"b">>}
Chunks == {0, 1, 2}
Opt(S) == {<<>>} \cup {<<x>> : x \in S}

ToolMsgs ==
  {[NoMsg EXCEPT !.calls = c] :
     c \in {<<n>> : n \in Names} \cup {<<n1, n2>> : n1, n2 \in Names}}

TextMsgs ==
  {[NoMsg EXCEPT !.outT = o, !.inT = i, !.turnComplete = t,
                 !.interrupted = x] :
     o \in Opt(PartialTexts), i \in Opt(PartialTexts),
     t \in BOOLEAN, x \in BOOLEAN} \ {NoMsg}

AudioMsgs ==
  {[NoMsg EXCEPT !.audio = a, !.interrupted = x] :
     a \in Opt(Chunks), x \in BOOLEAN} \ {NoMsg}

\* ------------------------------------------------------------------- Init
Init ==
  /\ audioContext = 0 /\ inputAudioContext = 0 /\ stream = 0
  /\ nextStartTime = 0 /\ sources = {}
  /\ sessionPromise = 0
  /\ currentInputTranscription = <<>> /\ currentOutputTranscription = <<>>
  /\ connects = 0
  /\ pc = [k \in Conns |-> "idle"]
  /\ transport = [k \in Conns |-> "none"]
  /\ opened = {}
  /\ capture = [k \in Conns |-> "off"]
  /\ windows = <<>>
  /\ clock = 0
  /\ calls = <<>>
  /\ queuedResp = [k \in Conns |-> {}]
  /\ responses = <<>>
  /\ active = FALSE /\ statusTrueN = 0 /\ discFalse = <<>>
  /\ acquired = {}
  /\ relCount = [kind \in Kinds |-> [k \in Conns |-> 0]]
  /\ tcalls = <<>>
  /\ inParts = <<>> /\ outParts = <<>>
  /\ hist = <<>> /\ staleOffset = -1
  /\ lastOp = Op("new", 0, NoMsg)
  /\ pcm = NoPcm

\* The session's life: the caller's calls, the microphone and the transport.
Lifecycle ==
  \/ Disconnect
  \/ \E o \in CtorOutcomes : ConnectStart(o)
  \/ \E k \in Conns : MicGranted(k)
  \/ \E k \in Conns : MicDenied(k)
  \/ \E k \in Conns : TransportOpen(k)
  \/ \E k \in Conns : TransportError(k)
  \/ \E k \in Conns : TransportClose(k)

\* Sessions with the capture pipeline.
Next ==
  \/ Lifecycle
  \/ \E c \in Conns : CaptureWindow(c)
  \/ \E c \in Conns : CaptureStopped(c)

Spec == Init /\ [][Next]_vars

\* Sessions with tool-call events.
NextTool ==
  \/ Lifecycle
  \/ \E k \in Conns, m \in ToolMsgs : HandleMessage(k, m)
  \/ \E i \in 1..MaxCalls, o \in GenOutcomes : ToolActionDone(i, o)

SpecTool == Init /\ [][NextTool]_vars

\* Sessions with transcript events.
NextText ==
  \/ Lifecycle
  \/ \E k \in Conns, m \in TextMsgs : HandleMessage(k, m)

SpecText == Init /\ [][NextText]_vars

\* Sessions with audio chunks and interruptions.
NextAudio ==
  \/ Lifecycle
  \/ Tick
  \/ \E u \in sources : SourceEnded(u)
  \/ \E k \in Conns, m \in AudioMsgs : HandleMessage(k, m)

SpecAudio == Init /\ [][NextAudio]_vars

\* -------------------------------------------------------------------- PCM
\* A float sample of [-1, 1] is a whole number of steps of
\* 1 / (Scale * SubSteps): SubSteps float values lie from one 16-bit level to
\* the next.  A scaled sample (inputData[i] * 32768) is the same number of
\* steps, each of 1 / SubSteps.
Scale == 32768
Int16Min == -32768
Int16Max == 32767
One == Scale * SubSteps

Min(a, b) == IF a <= b THEN a ELSE b

Abs(a) == IF a >= 0 THEN a ELSE -a

\* A scaled sample stored as it is.
ClampNone(r) == r

\* Math.max(-32768, Math.min(32767, r)) of line 372, on a scaled sample.
Clamp(r) == Max(Int16Min * SubSteps, Min(Int16Max * SubSteps, r))

\* The store of a scaled sample into an Int16Array element (line 372): the
\* number is truncated toward zero and wrapped modulo 2^16.
ToInt16(r) ==
  LET t == IF r >= 0 THEN r \div SubSteps ELSE -((-r) \div SubSteps)
  IN ((t + 32768) % 65536) - 32768

\* The Uint8Array view of an Int16Array buffer (line 376): two bytes for
\* each element, the low byte first.
RECURSIVE Uint8View(_)
Uint8View(int16) ==
  IF int16 = <<>> THEN <<>>
  ELSE LET u == Head(int16) % 65536
       IN <<u % 256, u \div 256>> \o Uint8View(Tail(int16))

\* btoa (line 381) of the binary string of lines 375-380, which has one
\* character for each byte.  A base64 character is its index in the
\* alphabet; 64 is the padding character.
RECURSIVE btoa(_)
btoa(b) ==
  IF b = <<>> THEN <<>>
  ELSE IF Len(b) = 1
  THEN <<b[1] \div 4, (b[1] % 4) * 16, 64, 64>>
  ELSE IF Len(b) = 2
  THEN <<b[1] \div 4, (b[1] % 4) * 16 + b[2] \div 16, (b[2] % 16) * 4, 64>>
  ELSE <<b[1] \div 4, (b[1] % 4) * 16 + b[2] \div 16,
         (b[2] % 16) * 4 + b[3] \div 64, b[3] % 64>>
         \o btoa(SubSeq(b, 4, Len(b)))

\* encodeAudio (lines 368-382).
encodeAudio(inputData) ==
  btoa(Uint8View([i \in 1..Len(inputData) |->
                    ToInt16(Clamp(inputData[i]))]))

\* atob and the byte array filled from it (lines 333-337).
RECURSIVE atob(_)
atob(c) ==
  IF Len(c) < 4 THEN <<>>
  ELSE LET b1 == c[1] * 4 + c[2] \div 16
           b2 == (c[2] % 16) * 16 + c[3] \div 4
           b3 == (c[3] % 4) * 64 + c[4]
       IN (IF c[3] = 64 THEN <<b1>>
           ELSE IF c[4] = 64 THEN <<b1, b2>>
           ELSE <<b1, b2, b3>>) \o atob(SubSeq(c, 5, Len(c)))

\* The Int16Array view of the byte array (line 339).
RECURSIVE Int16View(_)
Int16View(b) ==
  IF Len(b) < 2 THEN <<>>
  ELSE LET u == b[1] + 256 * b[2]
       IN <<IF u >= 32768 THEN u - 65536 ELSE u>>
            \o Int16View(SubSeq(b, 3, Len(b)))

\* The decoding of playAudio (lines 333-345): each 16-bit value divided by
\* 32768, in steps of a float sample.
decodeAudio(base64Data) ==
  LET dataInt16 == Int16View(atob(base64Data))
  IN [i \in 1..Len(dataInt16) |-> dataInt16[i] * SubSteps]

\* The float samples a window is made of: those next to -1, to -1/2, to 0,
\* to 1/2 and to 1.
Samples ==
  UNION {{e, -e, One \div 2 + e, -(One \div 2) - e, One - e, e - One} :
           e \in 0..(SubSteps + 1)}

SampleSeqs == UNION {[1..n -> Samples] : n \in 0..MaxSamples}

\* The capture callback encodes a window (line 245).
EncodeWindow ==
  /\ pcm.stage = "idle"
  /\ \E x \in SampleSeqs :
       pcm' = [samples |-> x, frame |-> encodeAudio(x), decoded |-> <<>>,
               stage |-> "encoded"]
  /\ UNCHANGED <<fieldVars, textVars, playVars, toolVars, connVars,
                 statusVars, transport, opened, capture, windows, clock,
                 acquired, relCount, tcalls, lastOp>>

\* The frame is decoded as playAudio decodes a chunk.
DecodeFrame ==
  /\ pcm.stage = "encoded"
  /\ pcm' = [pcm EXCEPT !.decoded = decodeAudio(pcm.frame),
                        !.stage = "decoded"]
  /\ UNCHANGED <<fieldVars, textVars, playVars, toolVars, connVars,
                 statusVars, transport, opened, capture, windows, clock,
                 acquired, relCount, tcalls, lastOp>>

\* Windows of samples taken through the encoder and the decoder.
NextPcm ==
  \/ EncodeWindow
  \/ DecodeFrame

SpecPcm == Init /\ [][NextPcm]_vars

\* ================================================================= claims
DisconnectOps == {"disconnect", "micDenied", "error", "close"}

\* C1 (as stated): after a session has been started, two successive
\* disconnect() calls with no connect() between them invoke the status
\* callback with false exactly once in total.
C1_OnceForTwoDisconnects ==
  (statusTrueN > 0 /\ Len(discFalse) = 2) =>
    discFalse[1] + discFalse[2] = 1

\* Two successive disconnect() calls have run, the second while a capture
\* send was waiting on its session promise.
C1_TwoDisconnects ==
  /\ statusTrueN > 0
  /\ Len(discFalse) = 2
  /\ \E w \in DOMAIN windows : windows[w].fate = "queued"

\* C2: no device handle is ever released twice; right after disconnect() has
\* run (called by the owner, by the catch block of connect() or by a
\* transport close/error event) the three handle fields and the session
\* promise are null; and in a run with one connect() call every handle
\* acquired so far has then been released exactly once.
C2_ReleasedExactlyOnce ==
  /\ \A kind \in Kinds, k \in Conns : relCount[kind][k] <= 1
  /\ lastOp.op \in DisconnectOps =>
       /\ stream = 0 /\ inputAudioContext = 0 /\ audioContext = 0
       /\ sessionPromise = 0
       /\ connects = 1 => \A h \in acquired : relCount[h[1]][h[2]] = 1

\* A second disconnect() has run after a session that held all three handles.
C2_SecondDisconnectAfterSession ==
  /\ connects = 1 /\ pc[1] = "done"
  /\ lastOp.op \in DisconnectOps
  /\ Len(discFalse) = 2
  /\ Cardinality(acquired) = 3

\* disconnect() has run from a partially connected state: the contexts were
\* held and the microphone stream was not.
C2_PartialDisconnect ==
  /\ connects = 1 /\ pc[1] \in {"awaitMic", "failed"}
  /\ lastOp.op \in DisconnectOps
  /\ Cardinality(acquired) = 2

CreateImage(i) == i \in DOMAIN calls /\ calls[i].name = "create_image"

ResponsesTo(i) == {n \in DOMAIN responses : responses[n].id = i}

Waiting(i) == \E k \in Conns : \E q \in queuedResp[k] : q.id = i

\* C3 (as stated): every create_image request received while its session was
\* open, and whose action has settled, has exactly one response, sent on the
\* transport of the session that received the request.
C3_AlwaysOneResponse ==
  \A i \in DOMAIN calls :
    (CreateImage(i) /\ calls[i].recvHeld = calls[i].sess
       /\ calls[i].state = "done" /\ ~Waiting(i)) =>
      /\ Cardinality(ResponsesTo(i)) = 1
      /\ \A n \in ResponsesTo(i) : responses[n].on = calls[i].sess

\* C3 (amended): a create_image request whose action settles while the client
\* still holds the session that received it has exactly one response, sent on
\* that session's transport with the request's id and name; no request ever
\* has more than one response; and the result of every response to a failed
\* action starts with "Error: ", that of a successful one does not.
C3_OneResponseWhileSessionHeld ==
  \A i \in DOMAIN calls :
    CreateImage(i) =>
      /\ Cardinality(ResponsesTo(i)) <= 1
      /\ calls[i].state # "done" => ResponsesTo(i) = {} /\ ~Waiting(i)
      /\ (calls[i].state = "done" /\ calls[i].held = calls[i].sess) =>
           /\ Cardinality(ResponsesTo(i)) = 1
           /\ \A n \in ResponsesTo(i) : responses[n].on = calls[i].sess
      /\ \A n \in ResponsesTo(i) :
           /\ responses[n].name = "create_image"
           /\ (responses[n].result[1] = "Error: ")
                <=> (calls[i].outcome # "image")
           /\ calls[i].outcome = "image" =>
                responses[n].result = <<"Image generated successfully.">>

\* A failed action and a successful one have each been answered on the
\* session that received the request.
C3_AnsweredBoth ==
  \E i, j \in DOMAIN calls :
    /\ CreateImage(i) /\ CreateImage(j)
    /\ calls[i].outcome = "image" /\ calls[j].outcome \in {"noImage", "thrown"}
    /\ \E n \in ResponsesTo(i) : responses[n].on = calls[i].sess
    /\ \E n \in ResponsesTo(j) : responses[n].on = calls[j].sess

SameEvent(i, j) ==
  /\ i \in DOMAIN calls /\ j \in DOMAIN calls /\ i < j
  /\ calls[i].ev = calls[j].ev
  /\ CreateImage(i) /\ CreateImage(j)

\* C4 (as stated): while the action of an earlier call of an event is still
\* running, the action of a later call of the same event has been started.
C4_LaterCallStarted ==
  \A i, j \in DOMAIN calls :
    (SameEvent(i, j) /\ calls[i].state = "running") =>
      calls[j].state \in {"running", "done"}

\* C4 (amended): the calls of one event are processed one after another in
\* the order of the event: the action of a later call has been started only
\* when the action of every earlier call of the event has settled.
C4_Sequential ==
  \A i, j \in DOMAIN calls :
    (SameEvent(i, j) /\ calls[j].state \in {"running", "done"}) =>
      calls[i].state = "done"

\* The second call of an event is running after the first one has settled.
C4_SecondAfterFirst ==
  \E i, j \in DOMAIN calls :
    SameEvent(i, j) /\ calls[i].state = "done" /\ calls[j].state = "running"

RECURSIVE Flatten(_)
Flatten(parts) ==
  IF parts = <<>> THEN <<>> ELSE Head(parts) \o Flatten(Tail(parts))

\* C5: the callback invoked for a turn-complete event is the last one of
\* the message, is the only final one and carries, for each direction, the
\* concatenation in arrival order of the partials received since the previous
\* reset of that buffer (those of the same message included); both buffers
\* are empty after it.
C5_FinalCarriesConcatenation ==
  (lastOp.op = "message" /\ lastOp.turnComplete) =>
    /\ tcalls # <<>>
    /\ tcalls[Len(tcalls)].final
    /\ tcalls[Len(tcalls)].user = Flatten(lastOp.before.inParts)
    /\ tcalls[Len(tcalls)].model = Flatten(lastOp.before.outParts)
    /\ \A n \in 1..(Len(tcalls) - 1) : ~tcalls[n].final
    /\ currentInputTranscription = <<>>
    /\ currentOutputTranscription = <<>>

\* A turn-complete event has been handled whose final callback carried two
\* input partials and an output partial.
C5_FinalAfterPartials ==
  /\ lastOp.op = "message" /\ lastOp.turnComplete
  /\ tcalls # <<>>
  /\ tcalls[Len(tcalls)].final
  /\ tcalls[Len(tcalls)].user = <<"a", "b">>
  /\ tcalls[Len(tcalls)].model # <<>>
  /\ currentInputTranscription = <<>>

\* C6: an interruption event (a message that signals the interruption and
\* carries no partial and no turn-complete) empties the output buffer and
\* leaves the input buffer as it was before the event.
C6_InterruptionKeepsInput ==
  (lastOp.op = "message" /\ lastOp.interrupted /\ ~lastOp.turnComplete
     /\ tcalls = <<>>) =>
    /\ currentOutputTranscription = <<>>
    /\ currentInputTranscription = lastOp.before.input

\* An interruption has been handled mid-turn: the input buffer still holds
\* the partials of the turn.
C6_InterruptedMidTurn ==
  /\ lastOp.op = "message" /\ lastOp.interrupted /\ ~lastOp.turnComplete
  /\ tcalls = <<>>
  /\ Len(currentInputTranscription) = 2
  /\ lastOp.before.outParts # <<>>
  /\ currentOutputTranscription = <<>>

\* C7: after an interruption event the active playback set is empty and
\* nextStartTime is 0, and the first chunk enqueued after an interruption
\* starts at the output clock read at its enqueue, whatever the offset
\* accumulated before the interruption.
C7_InterruptionResets ==
  /\ (lastOp.op = "message" /\ lastOp.interrupted) =>
       sources = {} /\ nextStartTime = 0
  /\ (staleOffset >= 0 /\ hist # <<>>) =>
       hist[1].npt = 0 /\ hist[1].start = hist[1].clock

\* A chunk has been enqueued after an interruption that arrived while the
\* accumulated offset was ahead of the clock the chunk was enqueued at.
C7_EnqueuedAfterInterruption ==
  /\ hist # <<>>
  /\ staleOffset > hist[1].clock
  /\ hist[1].clock > 0

\* C8: chunks enqueued with no interruption between them, each at a clock
\* not later than nextStartTime, are gapless and in enqueue order: each
\* starts where the one before it ends.
C8_Gapless ==
  \A i \in 1..(Len(hist) - 1) :
    hist[i + 1].clock <= hist[i + 1].npt =>
      hist[i + 1].start = hist[i].start + hist[i].dur

\* Two chunks have been enqueued back to back, the second while the clock was
\* behind nextStartTime.
C8_TwoEnqueued ==
  /\ Len(hist) >= 2
  /\ hist[2].clock < hist[2].npt
  /\ hist[1].dur = 2

\* C9: every enqueue gives the chunk the later of the output clock and
\* nextStartTime as its start, so no unit starts before the clock read at its
\* enqueue.
C9_NeverBeforeClock ==
  \A i \in DOMAIN hist :
    /\ hist[i].start >= hist[i].clock
    /\ hist[i].start >= hist[i].npt
    /\ hist[i].start \in {hist[i].clock, hist[i].npt}

\* A chunk has been enqueued after the clock had passed nextStartTime.
C9_ClockPassedOffset ==
  \E i \in DOMAIN hist : hist[i].npt > 0 /\ hist[i].clock > hist[i].npt

\* C10 (as stated): status(true) has been invoked only for sessions whose
\* transport has confirmed the open.
C10_TrueOnlyAfterOpen == statusTrueN <= Cardinality(opened)

\* C10 (amended): status(true) is invoked by connect() when the microphone
\* stream has been acquired, before the transport is opened, once for each
\* connect() call that got the microphone; handling the open confirmation
\* invokes no status callback.
C10_TrueWhenMicAcquired ==
  /\ statusTrueN = Cardinality({k \in Conns : pc[k] = "done"})
  /\ lastOp.op = "micGranted" =>
       active /\ transport[lastOp.sess] = "connecting"

\* status(true) has been invoked and no open confirmation has arrived yet.
C10_ActiveBeforeOpen ==
  /\ lastOp.op = "micGranted" /\ active /\ statusTrueN = 1 /\ opened = {}

\* The steps that run disconnect() for an event of the transport.
TransportEnds == {"error", "close"}

\* C11 (as stated): when the transport of a session reports an error or a
\* close before it has confirmed the open, the connect() call that started
\* the session has failed with an error to its caller, the three handle fields
\* are null and the status callback has last been given false.
C11_OpenFailureFailsConnect ==
  (lastOp.op \in TransportEnds /\ lastOp.sess \notin opened) =>
    /\ pc[lastOp.sess] = "failed"
    /\ stream = 0 /\ inputAudioContext = 0 /\ audioContext = 0
    /\ ~active

\* The transport of a session has failed to open while the client held the
\* microphone stream and both contexts of that session: they have been
\* released and status(false) has been invoked, and the connect() call had
\* returned to its caller without an error.
C11_OpenFailed ==
  /\ lastOp.op = "error" /\ lastOp.sess \notin opened
  /\ \A kind \in Kinds : relCount[kind][lastOp.sess] = 1
  /\ ~active /\ discFalse # <<>>
  /\ pc[lastOp.sess] = "done"

\* C12: a connect() call whose microphone request is denied fails with an
\* error; the contexts it had acquired have been released exactly once, the
\* handle fields are null and status(false) has been invoked when it fails;
\* no microphone stream and no transport ever exists for it, and no capture
\* runs on its input context (unless the open confirmation of a session
\* started by another connect() call, which got the microphone, arrived
\* while the client held that context); and status(true) has been invoked
\* only for the connect() calls that got the microphone.
C12_MicDeniedFailsConnect ==
  /\ \A k \in Conns :
       pc[k] = "failed" =>
         /\ <<"stream", k>> \notin acquired
         /\ transport[k] = "none" /\ k \notin opened
         /\ capture[k] # "off" =>
              \E j \in Conns \ {k} : <<"stream", j>> \in acquired
         /\ \A kind \in {"inputAudioContext", "audioContext"} :
              <<kind, k>> \in acquired => relCount[kind][k] = 1
  /\ lastOp.op = "micDenied" =>
       /\ pc[lastOp.sess] = "failed"
       /\ stream = 0 /\ inputAudioContext = 0 /\ audioContext = 0
       /\ sessionPromise = 0
       /\ ~active /\ discFalse # <<>>
  /\ statusTrueN = Cardinality({k \in Conns : <<"stream", k>> \in acquired})

\* The microphone has been denied to the first connect() call, which held
\* both contexts.
C12_DeniedHoldingContexts ==
  /\ lastOp.op = "micDenied" /\ lastOp.sess = 1
  /\ relCount["inputAudioContext"][1] = 1 /\ relCount["audioContext"][1] = 1
  /\ statusTrueN = 0 /\ pc[1] = "failed"
  /\ capture[1] = "off" /\ transport[1] = "none"

\* C13: right after a close event or an error event of a transport has been
\* handled, whatever the session was doing, the microphone stream, both
\* contexts and the session promise are null, both transcript buffers are
\* empty, the status callback has last been given false, and every handle of
\* that session that the client held has been released once.
C13_TransportEndTearsDown ==
  lastOp.op \in TransportEnds =>
    /\ stream = 0 /\ inputAudioContext = 0 /\ audioContext = 0
    /\ sessionPromise = 0
    /\ currentInputTranscription = <<>>
    /\ currentOutputTranscription = <<>>
    /\ ~active /\ discFalse # <<>>
    /\ \A kind \in Kinds : relCount[kind][lastOp.sess] <= 1

\* An error event has been handled mid-turn in an open session: both
\* transcript buffers held text and the three handles were held.
C13_ErrorMidTurn ==
  /\ lastOp.op = "error" /\ lastOp.sess \in opened
  /\ lastOp.before.input # <<>> /\ lastOp.before.outParts # <<>>
  /\ \A kind \in Kinds : relCount[kind][lastOp.sess] = 1
  /\ transport[lastOp.sess] = "errored"

Closings == {"disconnect", "error", "close"}

\* C14 (as stated): when a session has been closed, by disconnect() or by a
\* close or error event of the transport, no tool action is running and no
\* function call of a received event is still waiting for its turn.
C14_NoCallInFlightAtClose ==
  lastOp.op \in Closings =>
    \A i \in DOMAIN calls : calls[i].state \notin {"running", "waiting"}

\* C14 (amended): closing a session does not wait for the tool calls in
\* flight and does not give them up: the tool actions that were running when
\* disconnect() was called, by the owner or for a close or error event, are
\* still running when it returns.
C14_CloseLeavesCallsInFlight ==
  lastOp.op \in Closings => Running(calls) = lastOp.before.running

\* disconnect() has been called while the open session that received an event
\* of two calls was running the action of the first: that action is still
\* running and the second call still waits for its turn.
C14_ClosedWhileInFlight ==
  /\ lastOp.op = "disconnect" /\ sessionPromise = 0
  /\ \E i, j \in DOMAIN calls :
       /\ SameEvent(i, j)
       /\ calls[i].state = "running" /\ calls[j].state = "waiting"
       /\ calls[i].recvHeld = calls[i].sess
       /\ transport[calls[i].sess] = "open"

\* C15: onImageGenerated has been invoked exactly once for every create_image
\* request whose action has succeeded and never for a request whose action
\* has failed (an error thrown or no image returned), is still running or
\* has not been started, nor for a call of another name.
C15_ImageCallbackOnSuccessOnly ==
  \A i \in DOMAIN calls :
    calls[i].images =
      IF CreateImage(i) /\ calls[i].state = "done"
                        /\ calls[i].outcome = "image"
      THEN 1 ELSE 0

\* Two actions have settled: one returned an image and the other failed,
\* returning no image or having its request throw.
C15_SucceededAndFailed ==
  \E i, j \in DOMAIN calls :
    /\ CreateImage(i) /\ CreateImage(j)
    /\ calls[i].state = "done" /\ calls[j].state = "done"
    /\ calls[i].outcome = "image" /\ calls[i].images = 1
    /\ calls[j].outcome \in {"noImage", "thrown"} /\ calls[j].images = 0

\* C16: nextStartTime never decreases from one state to the next, whatever
\* the step (a session operation, a transport event, a clock tick or an
\* inbound message), except in a step that handles a message signalling an
\* interruption, after which it is 0.
C16_NeverDecreases ==
  [][\/ nextStartTime' >= nextStartTime
     \/ /\ lastOp'.op = "message" /\ lastOp'.interrupted
        /\ nextStartTime' = 0]_vars

\* disconnect() has run on a session whose nextStartTime had advanced past
\* the clock, and nextStartTime is as the last chunk left it.
C16_AdvancedThenClosed ==
  /\ lastOp.op \in Closings
  /\ Len(hist) = 2
  /\ nextStartTime = hist[2].start + hist[2].dur
  /\ nextStartTime > clock

\* The action of call i, received by a session the client held, has settled
\* after a disconnect() that released that session's microphone stream.
SettledAfterDisconnect(i) ==
  /\ CreateImage(i)
  /\ calls[i].recvHeld = calls[i].sess
  /\ calls[i].state = "done"
  /\ calls[i].held # calls[i].sess
  /\ relCount["stream"][calls[i].sess] = 1

\* C17 (as stated): a tool action that was in flight when disconnect() was
\* called, and has settled since, has no response: none has been sent on any
\* transport and none waits on a session promise.
C17_NoResponseAfterDisconnect ==
  \A i \in DOMAIN calls :
    SettledAfterDisconnect(i) => ResponsesTo(i) = {} /\ ~Waiting(i)

\* A tool action in flight when disconnect() was called has settled while
\* the client held no session: no response has been sent for it.
C17_SettledWithNoSession ==
  \E i \in DOMAIN calls :
    /\ SettledAfterDisconnect(i)
    /\ calls[i].held = 0
    /\ ResponsesTo(i) = {} /\ ~Waiting(i)

\* C18 (as stated): right after disconnect() has run, called by the owner or
\* for a close or error event of the transport, the active playback set is
\* empty.
C18_NoUnitAfterClose ==
  lastOp.op \in Closings => sources = {}

\* disconnect() has run while a unit of the session was still scheduled: the
\* unit's context has been closed and the unit is still in the active set.
C18_ClosedWithUnitScheduled ==
  /\ lastOp.op = "disconnect"
  /\ audioContext = 0
  /\ \E u \in sources :
       /\ relCount["audioContext"][u.ctx] = 1
       /\ u.start + u.dur > clock

\* C19: a capture window delivered while the client holds no session promise
\* is dropped: it is not sent, it waits on no promise, and it stays dropped
\* whatever transport opens afterwards.
C19_WindowDroppedWithoutSession ==
  \A w \in DOMAIN windows :
    windows[w].held = 0 =>
      windows[w].fate = "dropped" /\ windows[w].sess = 0

\* A window delivered after disconnect() by the closing input context of the
\* first session has been dropped, and the transport of the next session has
\* opened since.
C19_DroppedThenOpened ==
  /\ lastOp.op = "open" /\ lastOp.sess = 2 /\ sessionPromise = 2
  /\ \E w \in DOMAIN windows :
       /\ windows[w].held = 0 /\ windows[w].ctx = 1
       /\ windows[w].fate = "dropped"

\* C20: the frame encoded of a window of samples of [-1, 1], the empty
\* window included, decodes to as many samples as the window has, each within
\* 1/32768 (SubSteps steps) of the sample it was made of; the frame has four
\* base64 characters for every three bytes or part of them.
C20_RoundTrip ==
  /\ pcm.stage # "idle" =>
       Len(pcm.frame) = 4 * ((2 * Len(pcm.samples) + 2) \div 3)
  /\ pcm.stage = "decoded" =>
       /\ Len(pcm.decoded) = Len(pcm.samples)
       /\ \A i \in DOMAIN pcm.samples :
            Abs(pcm.samples[i] - pcm.decoded[i]) <= SubSteps

\* A window holding the sample 1.0 has gone through the encoder and the
\* decoder: the sample came back as 32767/32768.
C20_BoundaryClamped ==
  /\ pcm.stage = "decoded"
  /\ \E i \in DOMAIN pcm.samples :
       /\ pcm.samples[i] = One
       /\ pcm.decoded[i] = Int16Max * SubSteps

\* The empty window has gone through the encoder and the decoder.
C20_EmptyWindow ==
  /\ pcm.stage = "decoded"
  /\ pcm.samples = <<>> /\ pcm.frame = <<>> /\ pcm.decoded = <<>>

\* C21: each transcript buffer holds the partials of its direction received
\* since its last reset, concatenated in arrival order, so a partial of one
\* direction leaves the buffer of the other as it was; and a message of
\* partials only has invoked onTranscriptUpdate once for each partial, never
\* as final, each time with the output buffer as the message leaves it and
\* with the input buffer as it was at that point: without the input partial
\* of the message or, in the last callback, as the message leaves it.
C21_PartialsAppendedAndReported ==
  /\ currentInputTranscription = Flatten(inParts)
  /\ currentOutputTranscription = Flatten(outParts)
  /\ (lastOp.op = "message" /\ ~lastOp.turnComplete /\ ~lastOp.interrupted) =>
       /\ Len(tcalls) \in {1, 2}
       /\ \A n \in DOMAIN tcalls :
            /\ ~tcalls[n].final
            /\ tcalls[n].model = currentOutputTranscription
            /\ \/ tcalls[n].user = currentInputTranscription
               \/ /\ n < Len(tcalls) /\ inParts # <<>>
                  /\ tcalls[n].user \o inParts[Len(inParts)]
                       = currentInputTranscription
       /\ tcalls[Len(tcalls)].user = currentInputTranscription

\* A message carrying a partial of each direction has been handled while
\* each buffer already held a partial: two callbacks, and each buffer holds
\* its two partials in the order of their arrival.
C21_TwoPartialsEachWay ==
  /\ lastOp.op = "message" /\ ~lastOp.turnComplete /\ ~lastOp.interrupted
  /\ Len(tcalls) = 2
  /\ currentInputTranscription = <<"a", "b">>
  /\ currentOutputTranscription = <<"b", "a">>
  /\ tcalls[1].user = <<"a">>

\* C22 (as stated): a response to a call whose action was in flight when
\* disconnect() was called, be it sent or waiting on a session promise, is
\* on the session that received the call.
C22_ResponseOnReceivingSession ==
  \A i \in DOMAIN calls :
    SettledAfterDisconnect(i) =>
      /\ \A n \in ResponsesTo(i) : responses[n].on = calls[i].sess
      /\ \A k \in Conns : \A q \in queuedResp[k] :
           q.id = i => k = calls[i].sess

\* disconnect() and then a connect() have happened while a tool action of
\* the first session was in flight, and the action has settled while the
\* transport of the second session was open.
C22_SettledInNextSession ==
  \E i \in DOMAIN calls :
    /\ SettledAfterDisconnect(i)
    /\ calls[i].sess = 1 /\ calls[i].held = 2
    /\ 2 \in opened
    /\ lastOp.op = "toolDone" /\ lastOp.sess = i

\* The last step handled a close or error event of a transport whose session
\* had been ended by disconnect() (its microphone stream released) while the
\* client held a session started by a later connect().
StaleEnd ==
  /\ lastOp.op \in TransportEnds
  /\ relCount["stream"][lastOp.sess] = 1
  /\ lastOp.before.held > lastOp.sess

\* C23 (as stated): a close or error event of the transport of an earlier
\* session leaves the later session as it was: the client still holds its
\* session promise, its microphone stream and its contexts, and the status
\* callback has not been given false.
C23_StaleEndSparesLaterSession ==
  StaleEnd =>
    /\ sessionPromise = lastOp.before.held
    /\ stream # 0 /\ inputAudioContext # 0 /\ audioContext # 0
    /\ active

\* The close event of the first session's transport has arrived while the
\* second session was open.
C23_StaleCloseInLaterSession ==
  /\ StaleEnd
  /\ lastOp.op = "close" /\ lastOp.sess = 1 /\ lastOp.before.held = 2
  /\ transport[2] = "open"

\* The session is closed: disconnect() has run after a session had become
\* active, the client holds no handle and no session promise, and no
\* connect() call is in progress.
Closed ==
  /\ statusTrueN > 0
  /\ stream = 0 /\ inputAudioContext = 0 /\ audioContext = 0
  /\ sessionPromise = 0
  /\ \A k \in Conns : pc[k] # "awaitMic"

\* C24 (as stated): while the session is closed both transcript buffers are
\* empty and a message of a transport invokes no onTranscriptUpdate.
C24_ClosedIgnoresEvents ==
  Closed =>
    /\ currentInputTranscription = <<>>
    /\ currentOutputTranscription = <<>>
    /\ lastOp.op = "message" => tcalls = <<>>

\* While the session was closed, the transport of the session that
\* disconnect() had ended, still open, has delivered a message.
C24_MessageWhileClosed ==
  /\ Closed
  /\ lastOp.op = "message"
  /\ transport[lastOp.sess] = "open"
  /\ relCount["stream"][lastOp.sess] = 1

\* While the session was closed, a tool action has settled with an image.
C24_ImageWhileClosed ==
  /\ Closed
  /\ lastOp.op = "toolDone"
  /\ calls[lastOp.sess].images = 1

\* The last step handled a message of the transport of a session that came
\* with a chunk and enqueued it on that session's output context, the chunk
\* before it having been enqueued on the context of an earlier connect().
FirstChunkOfLaterSession ==
  /\ lastOp.op = "message" /\ lastOp.chunk > 0 /\ ~lastOp.interrupted
  /\ audioContext = lastOp.sess
  /\ Len(hist) >= 2
  /\ hist[Len(hist)].ctx = lastOp.sess
  /\ hist[Len(hist) - 1].ctx < lastOp.sess

\* C25 (as stated): the first chunk a session enqueues after disconnect()
\* and a new connect() starts at the clock of the new output context read at
\* its enqueue.
C25_FirstChunkAtNewClock ==
  FirstChunkOfLaterSession =>
    hist[Len(hist)].start = hist[Len(hist)].clock

\* A session has enqueued its first chunk on a new output context while
\* nextStartTime, left by the chunk of the session before it, was ahead of
\* the new context's clock.
C25_FirstChunkAfterReconnect ==
  /\ FirstChunkOfLaterSession
  /\ hist[1].ctx = 1 /\ hist[2].ctx = 2
  /\ hist[2].npt = hist[1].start + hist[1].dur
  /\ hist[2].npt > hist[2].clock
====
